---- MODULE Spec2Model ----
(***************************************************************************)
(* Model of src/agent.py: the resilient Uvicorn hook proxy                 *)
(* (ResilientUvicornHook), the module-level start-up sequence (APM         *)
(* initialization, graph compilation, entry-point wrapping), the wrapped   *)
(* entry points, the get_weather tool and the chatbot node.                *)
(*                                                                         *)
(* Three specifications share the variables:                               *)
(*   SpecHook     attribute accesses on one ResilientUvicornHook instance, *)
(*                from several threads and re-entrantly from the import;   *)
(*   Spec         module start-up followed by calls into the exported      *)
(*                graph and into get_weather;                              *)
(*   SpecChatbot  calls of the chatbot node.                               *)
(***************************************************************************)
EXTENDS Naturals, Sequences, FiniteSets, TLC

VARIABLES
    \* ---- ResilientUvicornHook instance (lines 26-60)
    real_hook,       \* self._real_hook: "None" or "module"
    hook_loaded,     \* self._hook_loaded
    stacks,          \* per thread: stack of __getattr__ frames in progress
    lastAccess,      \* the last finished __getattr__ call and its outcome
    lastInvoke,      \* outcome of calling the attribute it returned
    loadAttempts,    \* how many times the import of line 44 was started
    anyReturned,     \* some __getattr__ call on the instance has finished
    started,         \* number of top-level accesses begun
    \* ---- module start-up (lines 63-220)
    env,             \* the process environment and the libraries' behaviour
    pc,              \* position in the module body
    graph,           \* the compiled graph's four entry-point attributes
    originals,       \* original_invoke .. original_astream
    apm,             \* what was asked of the APM library so far
    console,         \* labels of the lines printed so far
    exported,        \* module body finished: graph is importable
    lastCall,        \* the last call into the exported graph
    \* ---- chatbot node (lines 125-146)
    chat             \* the last chatbot call

hookVars == <<real_hook, hook_loaded, stacks, lastAccess, lastInvoke,
              loadAttempts, anyReturned, started>>
startVars == <<env, pc, graph, originals, apm, console, exported, lastCall>>
chatVars == <<chat>>
vars == <<hookVars, startVars, chatVars>>

(***************************************************************************)
(* Bounds                                                                  *)
(***************************************************************************)
MaxAccesses == 2   \* top-level attribute accesses on the proxy
MaxDepth == 2      \* nesting of __getattr__ calls made from inside the import
MaxMsgs == 2       \* messages in a conversation state

None == "None"
Nothing == [kind |-> "none"]

(***************************************************************************)
(* Python exceptions: the classes that occur and their base classes.       *)
(***************************************************************************)
ExcBases ==
    [ ModuleNotFoundError |-> {"ModuleNotFoundError", "ImportError", "Exception"},
      ImportError         |-> {"ImportError", "Exception"},
      AttributeError      |-> {"AttributeError", "Exception"},
      RecursionError      |-> {"RecursionError", "RuntimeError", "Exception"},
      RuntimeError        |-> {"RuntimeError", "Exception"},
      ValueError          |-> {"ValueError", "Exception"},
      TypeError           |-> {"TypeError", "Exception"},
      IndexError          |-> {"IndexError", "Exception"} ]

\* `except (A, B, ...)` catches exc iff exc is an instance of one of them
Catches(clause, exc) == (ExcBases[exc] \cap clause) # {}

(***************************************************************************)
(* ResilientUvicornHook                                                    *)
(***************************************************************************)
Threads == {"t1", "t2"}

\* attribute names looked up on the proxy that reach __getattr__ (names
\* not found by normal lookup); the real hook module defines the first
Names == {"instrument_uvicorn_config", "no_such_hook"}
RealModuleAttrs == {"instrument_uvicorn_config"}

\* what `import newrelic.hooks.adapter_uvicorn` followed by the attribute
\* chain of line 45 can do
ImportOutcomes == {"ok", "ModuleNotFoundError", "AttributeError", "RecursionError"}

\* arguments a caller may pass to a returned attribute: (positional, keyword)
CallArgs == { <<>>, <<"config">>, <<"config", "kw">> }

\* line 47: except (ImportError, AttributeError, Exception)
LoadHandlerClause == {"ImportError", "AttributeError", "Exception"}

\* faulty variant: the handler leaves the flag as it was
FlagAfterFailureKept(old) == old
\* line 49: the flag's value after a failed load
FlagAfterFailure(old) == TRUE

\* line 60: lambda *args, **kwargs: None
NoOp(args) == [kind |-> "return", value |-> None]

\* faulty variant: getattr(self._real_hook, name) without the hasattr test
LookupUnguarded(hook, name) ==
    IF hook # None
    THEN IF name \in RealModuleAttrs
         THEN [kind |-> "return", value |-> "attr"]
         ELSE [kind |-> "raise", exc |-> "AttributeError"]
    ELSE [kind |-> "return", value |-> "noop"]
\* lines 55-60: what __getattr__ returns once the load was attempted
Lookup(hook, name) ==
    IF hook # None /\ name \in RealModuleAttrs
    THEN [kind |-> "return", value |-> "attr"]
    ELSE [kind |-> "return", value |-> "noop"]

Frame(name) ==
    [name |-> name, at |-> "L42", exc |-> None,
     late |-> anyReturned, attempted |-> FALSE]

Top(t) == stacks[t][Len(stacks[t])]
SetTop(t, f) == [stacks EXCEPT ![t] = [@ EXCEPT ![Len(@)] = f]]
Pop(s) == SubSeq(s, 1, Len(s) - 1)

InitHook ==
    /\ real_hook = None
    /\ hook_loaded = FALSE
    /\ stacks = [t \in Threads |-> <<>>]
    /\ lastAccess = Nothing
    /\ lastInvoke = Nothing
    /\ loadAttempts = 0
    /\ anyReturned = FALSE
    /\ started = 0
    \* the module body and the chatbot are not run here
    /\ env = Nothing /\ pc = None /\ graph = Nothing /\ originals = Nothing
    /\ apm = Nothing /\ console = {} /\ exported = FALSE /\ lastCall = Nothing
    /\ chat = Nothing

\* a thread looks up `name` on the proxy: __getattr__(name) is entered
GetAttr_Enter(t, name) ==
    /\ stacks[t] = <<>>
    /\ started < MaxAccesses
    /\ started' = started + 1
    /\ stacks' = [stacks EXCEPT ![t] = <<Frame(name)>>]
    /\ UNCHANGED <<real_hook, hook_loaded, lastAccess, lastInvoke,
                   loadAttempts, anyReturned>>
    /\ UNCHANGED <<startVars, chatVars>>

\* the import machinery, running line 44 in thread t, looks up `name` on the
\* proxy itself (line 63 put the proxy where the module is looked up)
GetAttr_Reenter(t, name) ==
    /\ stacks[t] # <<>>
    /\ Top(t).at = "L44"
    /\ Len(stacks[t]) < MaxDepth
    /\ stacks' = [stacks EXCEPT ![t] = Append(@, Frame(name))]
    /\ UNCHANGED <<real_hook, hook_loaded, lastAccess, lastInvoke,
                   loadAttempts, anyReturned, started>>
    /\ UNCHANGED <<startVars, chatVars>>

\* line 42: if not self._hook_loaded
LoadRealHook_Check(t) ==
    /\ stacks[t] # <<>>
    /\ Top(t).at = "L42"
    /\ stacks' = SetTop(t, [Top(t) EXCEPT !.at = IF ~hook_loaded THEN "L43" ELSE "L55"])
    /\ UNCHANGED <<real_hook, hook_loaded, lastAccess, lastInvoke,
                   loadAttempts, anyReturned, started>>
    /\ UNCHANGED <<startVars, chatVars>>

\* line 44: the import statement starts (one attempt to load the real hook)
LoadRealHook_Start(t) ==
    /\ stacks[t] # <<>>
    /\ Top(t).at = "L43"
    /\ stacks' = SetTop(t, [Top(t) EXCEPT !.at = "L44", !.attempted = TRUE])
    /\ loadAttempts' = loadAttempts + 1
    /\ UNCHANGED <<real_hook, hook_loaded, lastAccess, lastInvoke,
                   anyReturned, started>>
    /\ UNCHANGED <<startVars, chatVars>>

\* what a frame does with an exception raised inside the try of lines 43-46
Raised(f, exc) ==
    IF Catches(LoadHandlerClause, exc)
    THEN [f EXCEPT !.at = "L49"]
    ELSE [f EXCEPT !.at = "raise", !.exc = exc]

\* lines 44-45 finish: the import and the attribute chain succeed or raise
LoadRealHook_Import(t, outcome) ==
    /\ stacks[t] # <<>>
    /\ Top(t).at = "L44"
    /\ stacks' = SetTop(t, IF outcome = "ok"
                           THEN [Top(t) EXCEPT !.at = "L45"]
                           ELSE Raised(Top(t), outcome))
    /\ UNCHANGED <<real_hook, hook_loaded, lastAccess, lastInvoke,
                   loadAttempts, anyReturned, started>>
    /\ UNCHANGED <<startVars, chatVars>>

\* line 45: self._real_hook = newrelic.hooks.adapter_uvicorn
LoadRealHook_Bind(t) ==
    /\ stacks[t] # <<>>
    /\ Top(t).at = "L45"
    /\ real_hook' = "module"
    /\ stacks' = SetTop(t, [Top(t) EXCEPT !.at = "L46"])
    /\ UNCHANGED <<hook_loaded, lastAccess, lastInvoke, loadAttempts,
                   anyReturned, started>>
    /\ UNCHANGED <<startVars, chatVars>>

\* line 46: self._hook_loaded = True
LoadRealHook_Mark(t) ==
    /\ stacks[t] # <<>>
    /\ Top(t).at = "L46"
    /\ hook_loaded' = TRUE
    /\ stacks' = SetTop(t, [Top(t) EXCEPT !.at = "L55"])
    /\ UNCHANGED <<real_hook, lastAccess, lastInvoke, loadAttempts,
                   anyReturned, started>>
    /\ UNCHANGED <<startVars, chatVars>>

\* lines 47-49: the handler marks the load as attempted
LoadRealHook_Except(t) ==
    /\ stacks[t] # <<>>
    /\ Top(t).at = "L49"
    /\ hook_loaded' = FlagAfterFailure(hook_loaded)
    /\ stacks' = SetTop(t, [Top(t) EXCEPT !.at = "L55"])
    /\ UNCHANGED <<real_hook, lastAccess, lastInvoke, loadAttempts,
                   anyReturned, started>>
    /\ UNCHANGED <<startVars, chatVars>>

\* a finished __getattr__ frame hands `res` to what called it: the thread's
\* caller, or the import of the frame below (which goes on, or gets the
\* exception inside its try)
Finish(t, res) ==
    LET f == Top(t)
        rest == Pop(stacks[t])
        rec == [kind |-> "access", name |-> f.name, res |-> res,
                hook |-> real_hook, late |-> f.late, attempted |-> f.attempted]
    IN  /\ lastAccess' = rec
        /\ lastInvoke' = Nothing
        /\ anyReturned' = TRUE
        /\ stacks' = [stacks EXCEPT ![t] =
              IF rest # <<>> /\ res.kind = "raise"
              THEN [rest EXCEPT ![Len(rest)] = Raised(rest[Len(rest)], res.exc)]
              ELSE rest]

\* lines 51-60: __getattr__ leaves: it returns the real attribute or the
\* no-op (lines 55-60), or lets through an exception that the handler of
\* line 47 did not catch
GetAttr_Leave(t) ==
    /\ stacks[t] # <<>>
    /\ Top(t).at \in {"L55", "raise"}
    /\ Finish(t, IF Top(t).at = "L55"
                 THEN Lookup(real_hook, Top(t).name)
                 ELSE [kind |-> "raise", exc |-> Top(t).exc])
    /\ UNCHANGED <<real_hook, hook_loaded, loadAttempts, started>>
    /\ UNCHANGED <<startVars, chatVars>>

\* the caller calls what the last access returned, with any arguments
CallReturned(args) ==
    /\ lastAccess # Nothing
    /\ lastAccess.res.kind = "return"
    /\ lastInvoke = Nothing
    /\ lastInvoke' =
          IF lastAccess.res.value = "noop"
          THEN [kind |-> "called", args |-> args, res |-> NoOp(args)]
          ELSE [kind |-> "called", args |-> args, res |-> [kind |-> "real"]]
    /\ UNCHANGED <<real_hook, hook_loaded, stacks, lastAccess, loadAttempts,
                   anyReturned, started>>
    /\ UNCHANGED <<startVars, chatVars>>

NextHook ==
    \/ \E t \in Threads, name \in Names : GetAttr_Enter(t, name)
    \/ \E t \in Threads, name \in Names : GetAttr_Reenter(t, name)
    \/ \E t \in Threads : LoadRealHook_Check(t)
    \/ \E t \in Threads : LoadRealHook_Start(t)
    \/ \E t \in Threads, o \in ImportOutcomes : LoadRealHook_Import(t, o)
    \/ \E t \in Threads : LoadRealHook_Bind(t)
    \/ \E t \in Threads : LoadRealHook_Mark(t)
    \/ \E t \in Threads : LoadRealHook_Except(t)
    \/ \E t \in Threads : GetAttr_Leave(t)
    \/ \E a \in CallArgs : CallReturned(a)

SpecHook == InitHook /\ [][NextHook]_vars

(***************************************************************************)
(* Module start-up (lines 63-220)                                          *)
(***************************************************************************)
EP == <<"invoke", "ainvoke", "stream", "astream">>
EntryPoints == {"invoke", "ainvoke", "stream", "astream"}
\* lines 176-179 and lines 182, 189, 196, 203
ReadAt == <<"L176", "L177", "L178", "L179", "L182">>   \* last: where reading ends
WrapAt == <<"L182", "L189", "L196", "L203", "L209">>   \* last: where wrapping ends

\* os.environ.get("NEW_RELIC_LICENSE_KEY"): unset, set to "", set to a key
LicenseKeys == {None, "", "key"}

\* faulty variant: the guard is missing
KeyEnabledAlways(k) == TRUE
\* lines 69, 111, 171: `if license_key:` (truth value of None or a string)
KeyEnabled(k) == k # None /\ k # ""

\* faulty variant: a handler for RuntimeError only
InitHandlerClauseNarrow == {"RuntimeError"}
\* line 78: except Exception
InitHandlerClause == {"Exception"}
\* line 210: except Exception
WrapHandlerClause == {"Exception"}
\* line 118: except Exception
ToolHandlerClause == {"Exception"}

\* console lines that report an APM failure (lines 79, 211)
FailureLines == {"L79", "L211"}

\* hasattr(graph, e)
HasAttr(g, e) == g[e] # "absent"

\* faulty variant: graph.e read without the hasattr test
ReadEntryUnguarded(g, e) ==
    IF HasAttr(g, e) THEN [kind |-> "return", value |-> g[e]]
    ELSE [kind |-> "raise", exc |-> "AttributeError"]
\* lines 176-179: graph.e if hasattr(graph, e) else None
ReadEntry(g, e) ==
    IF HasAttr(g, e) THEN [kind |-> "return", value |-> g[e]]
    ELSE [kind |-> "return", value |-> None]

Init ==
    /\ env \in { r \in [license_key : LicenseKeys,
                       apm_importable : BOOLEAN,
                       init_raises : BOOLEAN,
                       present : SUBSET EntryPoints,
                       read_raises : EntryPoints \cup {None},
                       setattr_raises : EntryPoints \cup {None}] :
                 /\ r.read_raises \in r.present \cup {None}
                 /\ r.setattr_raises \in r.present \cup {None} }
    /\ pc = "L63"
    /\ graph = Nothing
    /\ originals = [e \in EntryPoints |-> None]
    /\ apm = [import_attempted |-> FALSE, init_attempted |-> FALSE,
              initialized |-> FALSE, invoked |-> FALSE]
    /\ console = {}
    /\ exported = FALSE
    /\ lastCall = Nothing
    \* no access to the proxy and no chatbot call is followed here
    /\ real_hook = None /\ hook_loaded = FALSE /\ stacks = <<>>
    /\ lastAccess = Nothing /\ lastInvoke = Nothing
    /\ loadAttempts = 0 /\ anyReturned = FALSE /\ started = 0
    /\ chat = Nothing

\* lines 63-67: the proxy is put in sys.modules, the environment is read
InstallHook ==
    /\ pc = "L63"
    /\ pc' = "L69"
    /\ UNCHANGED <<env, graph, originals, apm, console, exported, lastCall>>
    /\ UNCHANGED <<hookVars, chatVars>>

\* lines 69, 80-81
CheckLicense ==
    /\ pc = "L69"
    /\ IF KeyEnabled(env.license_key)
       THEN pc' = "L71" /\ UNCHANGED console
       ELSE pc' = "L150" /\ console' = console \cup {"L81"}
    /\ UNCHANGED <<env, graph, originals, apm, exported, lastCall>>
    /\ UNCHANGED <<hookVars, chatVars>>

\* an exception inside the try of lines 70-77 (handler: lines 78-79)
InitFailed(exc) ==
    IF Catches(InitHandlerClause, exc)
    THEN pc' = "L150" /\ console' = console \cup {"L79"}
    ELSE pc' = "crashed" /\ UNCHANGED console

\* line 71: import newrelic.agent
ImportAgent ==
    /\ pc = "L71"
    /\ apm' = [apm EXCEPT !.import_attempted = TRUE]
    /\ IF env.apm_importable
       THEN pc' = "L72" /\ UNCHANGED console
       ELSE InitFailed("ModuleNotFoundError")
    /\ UNCHANGED <<env, graph, originals, exported, lastCall>>
    /\ UNCHANGED <<hookVars, chatVars>>

\* lines 72-77: newrelic.agent.initialize(config_file) and the banner
Initialize ==
    /\ pc = "L72"
    /\ apm' = [apm EXCEPT !.init_attempted = TRUE,
                          !.initialized = ~env.init_raises]
    /\ IF env.init_raises
       THEN InitFailed("RuntimeError")
       ELSE pc' = "L150" /\ console' = console \cup {"L73"}
    /\ UNCHANGED <<env, graph, originals, exported, lastCall>>
    /\ UNCHANGED <<hookVars, chatVars>>

\* lines 150-162: the graph is built and compiled
CompileGraph ==
    /\ pc = "L150"
    /\ graph' = [e \in EntryPoints |->
                    IF e \in env.present THEN "original" ELSE "absent"]
    /\ console' = console \cup {"L150"}
    /\ pc' = "L171"
    /\ UNCHANGED <<env, originals, apm, exported, lastCall>>
    /\ UNCHANGED <<hookVars, chatVars>>

\* lines 171, 213-214
CheckLicenseWrap ==
    /\ pc = "L171"
    /\ IF KeyEnabled(env.license_key)
       THEN pc' = "L173" /\ UNCHANGED console
       ELSE pc' = "L215" /\ console' = console \cup {"L214"}
    /\ UNCHANGED <<env, graph, originals, apm, exported, lastCall>>
    /\ UNCHANGED <<hookVars, chatVars>>

\* an exception inside the try of lines 172-209 (handler: lines 210-212)
WrapFailed(exc) ==
    IF Catches(WrapHandlerClause, exc)
    THEN pc' = "L215" /\ console' = console \cup {"L211", "L212"}
    ELSE pc' = "crashed" /\ UNCHANGED console

\* line 173: import newrelic.agent
ImportAgentWrap ==
    /\ pc = "L173"
    /\ apm' = [apm EXCEPT !.import_attempted = TRUE]
    /\ IF env.apm_importable
       THEN pc' = "L176" /\ UNCHANGED console
       ELSE WrapFailed("ModuleNotFoundError")
    /\ UNCHANGED <<env, graph, originals, exported, lastCall>>
    /\ UNCHANGED <<hookVars, chatVars>>

\* lines 176-179: original_<e> = graph.<e> if hasattr(graph, <e>) else None
ReadOriginal(i) ==
    LET e == EP[i]
        r == IF env.read_raises = e
             THEN [kind |-> "raise", exc |-> "RuntimeError"]
             ELSE ReadEntry(graph, e)
    IN  /\ pc = ReadAt[i]
        /\ IF r.kind = "raise"
           THEN WrapFailed(r.exc) /\ UNCHANGED originals
           ELSE /\ originals' = [originals EXCEPT ![e] = r.value]
                /\ pc' = ReadAt[i + 1]
                /\ UNCHANGED console
        /\ UNCHANGED <<env, graph, apm, exported, lastCall>>
        /\ UNCHANGED <<hookVars, chatVars>>

\* lines 182-207: if original_<e>: def wrapped_<e> ...; graph.<e> = wrapped_<e>
WrapEntry(i) ==
    LET e == EP[i]
    IN  /\ pc = WrapAt[i]
        /\ IF originals[e] = None
           THEN pc' = WrapAt[i + 1] /\ UNCHANGED <<graph, console>>
           ELSE IF env.setattr_raises = e
                THEN WrapFailed("AttributeError") /\ UNCHANGED graph
                ELSE /\ graph' = [graph EXCEPT ![e] = "wrapped"]
                     /\ pc' = WrapAt[i + 1]
                     /\ UNCHANGED console
        /\ UNCHANGED <<env, originals, apm, exported, lastCall>>
        /\ UNCHANGED <<hookVars, chatVars>>

\* line 209
WrapSucceeded ==
    /\ pc = "L209"
    /\ console' = console \cup {"L209"}
    /\ pc' = "L215"
    /\ UNCHANGED <<env, graph, originals, apm, exported, lastCall>>
    /\ UNCHANGED <<hookVars, chatVars>>

\* lines 215-220: the banner is printed and the module body ends
ExportGraph ==
    /\ pc = "L215"
    /\ exported' = TRUE
    /\ pc' = "done"
    /\ UNCHANGED <<env, graph, originals, apm, console, lastCall>>
    /\ UNCHANGED <<hookVars, chatVars>>

(***************************************************************************)
(* Calls into the exported graph (wrappers: lines 183-206)                 *)
(***************************************************************************)
\* what the body of an original entry point does on one call: it produces a
\* result (for the streaming variants: its chunks) or raises
Behaviours == {"v1", "v2", "ValueError"}
\* positional and keyword arguments of a call
GraphArgs == { <<"state">>, <<"state", "config">> }

Plain(id, args) == [type |-> "plain", id |-> id, of |-> args]
Outcome(b, args) ==
    IF b = "ValueError" THEN [kind |-> "raise", exc |-> b]
    ELSE [kind |-> "return", value |-> Plain(b, args)]
TypeErr == [kind |-> "raise", exc |-> "TypeError"]

\* the kind of object a call of each original entry point evaluates to:
\* invoke runs its body; ainvoke is a coroutine function; stream is a
\* generator function; astream is an async generator function
OrigType == [invoke |-> "plain", ainvoke |-> "coroutine",
             stream |-> "generator", astream |-> "async_generator"]

\* how a caller gets at the result of each entry point
Protocol == [invoke |-> "call", ainvoke |-> "await",
             stream |-> "for", astream |-> "async for"]
\* wrapped_astream being `async def`, a caller may also await what it returns
Modes(e) == IF e = "astream" THEN {"async for", "await"} ELSE {Protocol[e]}

\* lines 184, 191, 198, 205: the transaction name and its group
TxnName ==
    [invoke |-> "LangGraph/agent/invoke", ainvoke |-> "LangGraph/agent/ainvoke",
     stream |-> "LangGraph/agent/stream", astream |-> "LangGraph/agent/astream"]
TxnGroup == "Function"

NameEv(e) == [ev |-> "set_transaction_name", name |-> TxnName[e], group |-> TxnGroup]
OrigEv(e, args) == [ev |-> "original", entry |-> e, args |-> args]

\* original_<e>(*args, **kwargs): the events of the call and what it
\* evaluates to
Original(e, args, b) ==
    IF e = "invoke"
    THEN [events |-> <<OrigEv(e, args)>>, res |-> Outcome(b, args)]
    ELSE [events |-> <<OrigEv(e, args)>>,
          res |-> [kind |-> "return",
                   value |-> [type |-> OrigType[e], events |-> <<>>,
                              yields |-> Outcome(b, args)]]]

\* what `await x`, `for .. in x`, `async for .. in x` do with the value x
Drive(mode, called) ==
    LET needs == [await |-> "coroutine", for |-> "generator"] IN
    IF called.res.kind = "raise" \/ mode = "call" THEN called
    ELSE LET v == called.res.value
             want == IF mode = "async for" THEN "async_generator" ELSE needs[mode]
         IN  IF v.type = want
             THEN [events |-> called.events \o v.events, res |-> v.yields]
             ELSE [events |-> called.events, res |-> TypeErr]

\* lines 183-185 and 197-199: def wrapped_invoke / wrapped_stream
WrappedSync(e, args, b) ==
    LET o == Original(e, args, b)
    IN  [events |-> <<NameEv(e)>> \o o.events, res |-> o.res]

\* lines 190-192: async def wrapped_ainvoke: return await original_ainvoke(..)
WrappedAinvoke(args, b) ==
    LET o == Drive("await", Original("ainvoke", args, b))
    IN  [events |-> <<>>,
         res |-> [kind |-> "return",
                  value |-> [type |-> "coroutine",
                             events |-> <<NameEv("ainvoke")>> \o o.events,
                             yields |-> o.res]]]

\* lines 204-206: async def wrapped_astream: return original_astream(..)
WrappedAstream(args, b) ==
    LET o == Original("astream", args, b)
    IN  [events |-> <<>>,
         res |-> [kind |-> "return",
                  value |-> [type |-> "coroutine",
                             events |-> <<NameEv("astream")>> \o o.events,
                             yields |-> o.res]]]

Wrapped(e, args, b) ==
    CASE e = "ainvoke" -> WrappedAinvoke(args, b)
      [] e = "astream" -> WrappedAstream(args, b)
      [] OTHER -> WrappedSync(e, args, b)

\* the hosting platform calls graph.<e>(*args) and consumes the result
CallEntry(e, args, b, mode) ==
    /\ exported
    /\ HasAttr(graph, e)
    /\ LET called == IF graph[e] = "wrapped" THEN Wrapped(e, args, b)
                     ELSE Original(e, args, b)
           got == Drive(mode, called)
       IN  /\ lastCall' = [kind |-> "entry", entry |-> e, args |-> args,
                           b |-> b, mode |-> mode,
                           wrapped |-> (graph[e] = "wrapped"),
                           events |-> got.events, res |-> got.res]
           /\ apm' = [apm EXCEPT !.invoked =
                         @ \/ (\E i \in 1..Len(got.events) :
                                  got.events[i].ev = "set_transaction_name")]
    /\ UNCHANGED <<env, pc, graph, originals, console, exported>>
    /\ UNCHANGED <<hookVars, chatVars>>

(***************************************************************************)
(* get_weather (lines 100-122)                                             *)
(***************************************************************************)
Locations == {"Paris", "Oslo"}

\* lines 116, 122 (the degree sign of the source is left out)
WeatherText(location) == "The weather in " \o location \o " is sunny and 72F"

\* lines 111-122
CallGetWeather(location) ==
    /\ exported
    /\ LET tries == KeyEnabled(env.license_key)
           traced == tries /\ env.apm_importable
       IN  /\ apm' = [apm EXCEPT !.import_attempted = @ \/ tries,
                                 !.invoked = @ \/ traced]
           /\ lastCall' =
                IF tries /\ ~env.apm_importable
                   /\ ~Catches(ToolHandlerClause, "ModuleNotFoundError")
                THEN [kind |-> "tool", location |-> location, traced |-> traced,
                      res |-> [kind |-> "raise", exc |-> "ModuleNotFoundError"]]
                ELSE [kind |-> "tool", location |-> location, traced |-> traced,
                      res |-> [kind |-> "return", value |-> WeatherText(location)]]
    /\ UNCHANGED <<env, pc, graph, originals, console, exported>>
    /\ UNCHANGED <<hookVars, chatVars>>

Next ==
    \/ InstallHook
    \/ CheckLicense
    \/ ImportAgent
    \/ Initialize
    \/ CompileGraph
    \/ CheckLicenseWrap
    \/ ImportAgentWrap
    \/ \E i \in 1..Len(EP) : ReadOriginal(i)
    \/ \E i \in 1..Len(EP) : WrapEntry(i)
    \/ WrapSucceeded
    \/ ExportGraph
    \/ \E e \in EntryPoints, a \in GraphArgs, b \in Behaviours :
          \E m \in Modes(e) : CallEntry(e, a, b, m)
    \/ \E l \in Locations : CallGetWeather(l)

Spec == Init /\ [][Next]_vars

(***************************************************************************)
(* Properties of the hook proxy (checked under SpecHook)                   *)
(***************************************************************************)
\* C1: every finished __getattr__ call returned (it did not raise), whatever
\* the load did; when no real module was loaded or the module does not
\* define the name, it returned the no-op, and calling the no-op with any
\* arguments returns None and raises nothing
C1_GetAttrNeverRaises ==
    /\ lastAccess # Nothing =>
          /\ lastAccess.res.kind = "return"
          /\ (lastAccess.hook = None \/ lastAccess.name \notin RealModuleAttrs)
                => lastAccess.res.value = "noop"
    /\ (lastInvoke # Nothing /\ lastAccess.res.value = "noop") =>
          lastInvoke.res = [kind |-> "return", value |-> None]

\* C1 witness: the load succeeded, the module lacks the name, the no-op that
\* came back was called with a positional and a keyword argument
C1_Witness ==
    /\ lastAccess # Nothing
    /\ lastAccess.hook = "module"
    /\ lastAccess.name = "no_such_hook"
    /\ lastInvoke # Nothing
    /\ lastInvoke.args = <<"config", "kw">>
    /\ lastInvoke.res.kind = "return"

\* C2 (as claimed): the load of the real hook is attempted at most once
C2_LoadAttemptedAtMostOnce == loadAttempts <= 1

\* C2 (amended): an access that starts after some access on the instance has
\* returned attempts no load, once an access has returned _hook_loaded is
\* true, and _hook_loaded never returns to false
C2_NoLoadOnceAnAccessReturned ==
    /\ [](/\ \A t \in Threads : \A i \in 1..Len(stacks[t]) :
                stacks[t][i].late => ~stacks[t][i].attempted
          /\ (lastAccess # Nothing /\ lastAccess.late) => ~lastAccess.attempted
          /\ anyReturned => hook_loaded)
    /\ [][hook_loaded => hook_loaded']_vars

\* C2 witness: an access that began after another had returned has finished
\* without attempting the load, after the load had been attempted twice
C2_Witness ==
    /\ lastAccess # Nothing
    /\ lastAccess.late
    /\ ~lastAccess.attempted
    /\ loadAttempts = 2

(***************************************************************************)
(* Properties of start-up and of the exported graph (checked under Spec)   *)
(***************************************************************************)
\* what a call of the original entry point gives the same caller
Expected(c) == Drive(c.mode, Original(c.entry, c.args, c.b)).res

AllWrapped == \A e \in EntryPoints : graph[e] = "wrapped"

\* C3 (as claimed): on a graph exposing all four entry points, each wrapped
\* entry point called with A gives the caller what the original gives
C3_WrappedSameAsOriginal ==
    (lastCall # Nothing /\ lastCall.kind = "entry" /\ AllWrapped
        /\ lastCall.mode = Protocol[lastCall.entry])
      => lastCall.res = Expected(lastCall)

\* the same statement for the three entry points other than astream
WrappedSameExceptAstream ==
    (lastCall # Nothing /\ lastCall.kind = "entry" /\ lastCall.wrapped
        /\ lastCall.entry # "astream")
      => lastCall.res = Expected(lastCall)

\* C4 (as claimed): when the wrapping attempt failed, no entry point of the
\* exported graph is a wrapper
C4_FailedWrapLeavesOriginals ==
    (pc = "done" /\ "L211" \in console)
      => \A e \in EntryPoints : graph[e] # "wrapped"

\* C5: with a license key set and the APM module not importable, start-up
\* never stops short of its end; both failures are caught and reported, the
\* graph is exported with every entry point the original one, and calls
\* behave as the original
C5_StartupSurvivesMissingApm ==
    (env.license_key = "key" /\ ~env.apm_importable) =>
       /\ pc # "crashed"
       /\ pc # "done" => ENABLED Next
       /\ pc = "done" =>
            /\ exported
            /\ {"L79", "L211"} \subseteq console
            /\ \A e \in EntryPoints :
                  graph[e] = IF e \in env.present THEN "original" ELSE "absent"
            /\ (lastCall # Nothing /\ lastCall.kind = "entry") =>
                  /\ ~lastCall.wrapped
                  /\ lastCall.res = Expected(lastCall)
            /\ (lastCall # Nothing /\ lastCall.kind = "tool") =>
                  lastCall.res.kind = "return"

\* C5 witness: such a start-up ended and an entry point was called
C5_Witness ==
    /\ env.license_key = "key" /\ ~env.apm_importable
    /\ pc = "done" /\ exported
    /\ env.present = EntryPoints
    /\ lastCall # Nothing /\ lastCall.kind = "entry"
    /\ lastCall.entry = "astream" /\ lastCall.mode = "async for"
    /\ lastCall.res.kind = "return"

\* C6 (as claimed): after a failed newrelic.agent.initialize no entry point
\* is a wrapper and no later call invokes the APM library
C6_FailedInitRunsUninstrumented ==
    (apm.init_attempted /\ ~apm.initialized /\ graph # Nothing) =>
       /\ \A e \in EntryPoints : graph[e] # "wrapped"
       /\ ~apm.invoked

\* C7: when wrapping runs on a graph lacking any subset of the entry points
\* (and nothing else fails), it ends without error, every entry point that
\* is present is a wrapper and every absent one is still absent
C7_AbsentEntryPointsSkipped ==
    (pc \in {"L209", "L215", "done"} /\ env.license_key = "key"
        /\ env.apm_importable
        /\ env.read_raises = None /\ env.setattr_raises = None) =>
       /\ "L211" \notin console
       /\ pc # "L209" => "L209" \in console
       /\ \A e \in EntryPoints :
             graph[e] = IF e \in env.present THEN "wrapped" ELSE "absent"

\* C7 witness: wrapping ended on a graph with invoke and ainvoke only
C7_Witness ==
    /\ pc = "done" /\ "L209" \in console
    /\ env.present = {"invoke", "ainvoke"}
    /\ graph["invoke"] = "wrapped" /\ graph["stream"] = "absent"

\* C8: without a license key (unset, or set to the empty string) the APM
\* module is never imported nor initialized, at start-up or in a later
\* call, and no line reporting an APM failure is printed
C8_NoKeyNoApm ==
    env.license_key \in {None, ""} =>
       /\ ~apm.import_attempted
       /\ ~apm.init_attempted
       /\ ~apm.invoked
       /\ console \cap FailureLines = {}

\* C8 witness: start-up ended without a key and get_weather was called
C8_Witness ==
    /\ env.license_key = None
    /\ pc = "done" /\ {"L81", "L214"} \subseteq console
    /\ lastCall # Nothing /\ lastCall.kind = "tool"

\* C10 (as claimed): every call of a wrapped entry point records exactly one
\* transaction name, its own, under the fixed group, before the original
\* entry point is called; the four names are pairwise distinct
C10_OneNameBeforeDelegating ==
    /\ \A e1, e2 \in EntryPoints : e1 # e2 => TxnName[e1] # TxnName[e2]
    /\ (lastCall # Nothing /\ lastCall.kind = "entry" /\ lastCall.wrapped
          /\ lastCall.mode = Protocol[lastCall.entry]) =>
          lastCall.events = <<NameEv(lastCall.entry),
                              OrigEv(lastCall.entry, lastCall.args)>>

\* the same statement for every call in which the wrapper's body runs (all
\* but astream consumed with `async for`)
OneNameWhenBodyRuns ==
    (lastCall # Nothing /\ lastCall.kind = "entry" /\ lastCall.wrapped
        /\ ~(lastCall.entry = "astream" /\ lastCall.mode = "async for")) =>
       lastCall.events = <<NameEv(lastCall.entry),
                           OrigEv(lastCall.entry, lastCall.args)>>

(***************************************************************************)
(* chatbot (lines 125-146)                                                 *)
(***************************************************************************)
Contents == {"hello", "hi"}
\* a message of the state: a message object (it has a .content attribute),
\* a role/content dict, or a bare string
Messages ==
    [type : {"object", "dict", "str"}, role : {"user"}, content : Contents]
States == UNION { [1..n -> Messages] : n \in 0..MaxMsgs }

\* lines 134-136: the step of the LLM call that raises, if any
LlmOutcomes == {"ok", "ctor_raises", "bind_raises", "invoke_raises"}
\* line 138: except Exception
ChatHandlerClause == {"Exception"}

\* hasattr(last_message, 'content')
HasContent(m) == m.type = "object"
\* str(last_message)
PyStr(m) ==
    IF m.type = "dict"
    THEN "{'role': '" \o m.role \o "', 'content': '" \o m.content \o "'}"
    ELSE m.content

\* faulty variant: messages[0]
LastMessageFirst(msgs) ==
    IF msgs = <<>> THEN [kind |-> "raise", exc |-> "IndexError"]
    ELSE [kind |-> "return", value |-> msgs[1]]
\* line 141: messages[-1]
LastMessage(msgs) ==
    IF msgs = <<>> THEN [kind |-> "raise", exc |-> "IndexError"]
    ELSE [kind |-> "return", value |-> msgs[Len(msgs)]]

\* lines 139-146: echo mode
Echo(msgs) ==
    LET last == LastMessage(msgs)
    IN  IF last.kind = "raise" THEN last
        ELSE [kind |-> "return",
              value |-> [messages |-> <<
                 [role |-> "assistant",
                  content |-> "Echo: " \o (IF HasContent(last.value)
                                           THEN last.value.content
                                           ELSE PyStr(last.value))] >>]]

\* lines 130-146
Chatbot(msgs, llm) ==
    IF llm = "ok"
    THEN [kind |-> "return",
          value |-> [messages |-> << [role |-> "ai", content |-> "reply"] >>]]
    ELSE IF Catches(ChatHandlerClause, "RuntimeError")
         THEN Echo(msgs)
         ELSE [kind |-> "raise", exc |-> "RuntimeError"]

\* the graph runs the chatbot node on a state
RunChatbot(msgs, llm) ==
    /\ chat' = [kind |-> "call", state |-> msgs, llm |-> llm,
                res |-> Chatbot(msgs, llm)]
    /\ UNCHANGED <<hookVars, startVars>>

NextChatbot == \E msgs \in States, llm \in LlmOutcomes : RunChatbot(msgs, llm)

InitChatbot ==
    /\ chat = Nothing
    /\ real_hook = None /\ hook_loaded = FALSE /\ stacks = <<>>
    /\ lastAccess = Nothing /\ lastInvoke = Nothing
    /\ loadAttempts = 0 /\ anyReturned = FALSE /\ started = 0
    /\ env = Nothing /\ pc = None /\ graph = Nothing /\ originals = Nothing
    /\ apm = Nothing /\ console = {} /\ exported = FALSE /\ lastCall = Nothing

SpecChatbot == InitChatbot /\ [][NextChatbot]_vars

(***************************************************************************)
(* Properties of the chatbot node (checked under SpecChatbot)              *)
(***************************************************************************)
\* C9 (as claimed): when the LLM raises, the node does not raise and returns
\* exactly one assistant message whose content is "Echo: " followed by the
\* content of the last message of the state
C9_EchoForEveryState ==
    (chat # Nothing /\ chat.llm # "ok") =>
       /\ chat.res.kind = "return"
       /\ Len(chat.res.value.messages) = 1
       /\ chat.res.value.messages[1].role = "assistant"
       /\ chat.res.value.messages[1].content
             = "Echo: " \o chat.state[Len(chat.state)].content

\* C9 (amended): when the LLM raises, on a state with at least one message
\* the node returns exactly one assistant message whose content is "Echo: "
\* followed by the content attribute of the last message if it has one and
\* by str() of the last message otherwise; on a state without messages it
\* raises IndexError
C9_EchoOfLastMessage ==
    (chat # Nothing /\ chat.llm # "ok") =>
       IF chat.state = <<>>
       THEN chat.res = [kind |-> "raise", exc |-> "IndexError"]
       ELSE LET last == chat.state[Len(chat.state)]
                out == chat.res.value.messages
            IN  /\ chat.res.kind = "return"
                /\ Len(out) = 1
                /\ out[1].role = "assistant"
                /\ last.type = "object" => out[1].content = "Echo: " \o last.content
                /\ last.type = "str" => out[1].content = "Echo: " \o last.content
                /\ last.type = "dict" =>
                      out[1].content = "Echo: {'role': 'user', 'content': '"
                                          \o last.content \o "'}"
                /\ (Len(chat.state) = 1 /\ last.type = "object"
                      /\ last.content = "hello") => out[1].content = "Echo: hello"

\* C9 witness: the LLM raised on a two-message state whose last message is an
\* object with content "hello", and the echo came back
C9_Witness ==
    /\ chat # Nothing /\ chat.llm = "invoke_raises"
    /\ Len(chat.state) = 2
    /\ chat.state[1].content = "hi"
    /\ chat.state[2] = [type |-> "object", role |-> "user", content |-> "hello"]
    /\ chat.res.kind = "return"
    /\ chat.res.value.messages[1].content = "Echo: hello"
====
